---- MODULE Spec2Model ----
(***************************************************************************)
(* A model of the ray tracer of src/src/main.rs and src/src/object.rs.     *)
(*                                                                         *)
(* f64 values are modelled as fixed-point integers: the integer x stands   *)
(* for the real x / Scale.  Scale is 1000, so that the bias 1e-3 that      *)
(* cast_ray adds to secondary ray origins is exactly one quantum and the   *)
(* cutoff 1000.0 of scene_intersect is 1000 * Scale.  Products, quotients  *)
(* and square roots round toward zero to the next quantum (f64 rounds to   *)
(* the nearest representable value).  All intermediate values stay below   *)
(* 2^31.                                                                   *)
(***************************************************************************)
EXTENDS Integers, Sequences, FiniteSets, TLC

VARIABLES
    q,          \* SpecIntersect: the arguments of the call under test
    ans,        \* SpecIntersect: what the call returned ("none" before)
    spheres,    \* the scene's spheres (read-only during a render)
    lights,     \* the scene's lights
    call,       \* Spec: the arguments of the outermost cast_ray call
    stack,      \* Spec: the activation records of cast_ray, innermost last
    result,     \* Spec: what the outermost call returned ("none" before)
    nCasts,     \* Spec: cast_ray invocations so far
    nIntersect, \* Spec: scene_intersect invocations so far
    ret,        \* Spec: the last return of a cast_ray invocation
    lastLight,  \* Spec: the last iteration of the loop over lights
    config,     \* SpecRender: the arguments width, height and fov of render
    rpc,        \* SpecRender: where render is
    buffer,     \* SpecRender: the byte buffer, positions from 0
    bufLen,     \* SpecRender: the length the buffer was allocated with
    pj,         \* SpecRender: the row the loop over pixels is in
    pi,         \* SpecRender: the column the loop over pixels is in
    tasks,      \* SpecRender: the futures pushed so far
    outputs,    \* SpecRender: the output of each future that has been polled
    di,         \* SpecRender: the next result the last loop deposits
    writes,     \* SpecRender: how often each buffer position was written
    nTests,     \* SpecRender: scene_intersect invocations of the render
    firstPolled \* SpecRender: the future that was polled first (0: none yet)

ivars == <<q, ans>>

svars == <<spheres, lights>>

cvars == <<call, stack, result, nCasts, nIntersect, ret, lastLight>>

rvars == <<config, rpc, buffer, bufLen, pj, pi, tasks, outputs, di, writes, nTests,
           firstPolled>>

vars == <<q, ans, spheres, lights, call, stack, result, nCasts, nIntersect, ret,
          lastLight, config, rpc, buffer, bufLen, pj, pi, tasks, outputs, di,
          writes, nTests, firstPolled>>

(***************************************************************************)
(* Fixed-point arithmetic                                                  *)
(***************************************************************************)
Scale == 1000

U(x) == x * Scale

Abs(x) == IF x < 0 THEN -x ELSE x

Sgn(x) == IF x < 0 THEN -1 ELSE IF x > 0 THEN 1 ELSE 0

\* |a| * |b| / Scale rounded down, with no intermediate above 2^31
MulMag(a, b) == (a \div Scale) * b + ((a % Scale) * b) \div Scale

\* f64 multiplication
FMul(a, b) == Sgn(a) * Sgn(b) * MulMag(Abs(a), Abs(b))

\* f64 division (b # 0)
FDiv(a, b) == Sgn(a) * Sgn(b) * ((Abs(a) * Scale) \div Abs(b))

\* s * s <= x * Scale, for s, x >= 0
SqLeq(s, x) ==
    LET hi == MulMag(s, s)
        lo == ((s % Scale) * (s % Scale)) % Scale
    IN  hi < x \/ (hi = x /\ lo = 0)

\* x * Scale / y rounded down, for 0 < y <= 2^21 with y * y >= x * Scale
Quot(x, y) == (x \div y) * Scale + ((x % y) * Scale) \div y

\* A power of two above the root of x * Scale and at most twice it (x > 0)
RootGuess(x) ==
    IF SqLeq(1048576, x) THEN 2097152
    ELSE CHOOSE g \in {2^k : k \in 0..20} :
             ~SqLeq(g, x) /\ (g = 1 \/ SqLeq(g \div 2, x))

\* Newton's iteration from above: the largest y with y * y <= x * Scale
RECURSIVE Newton(_, _)
Newton(x, y) ==
    IF (y + Quot(x, y)) \div 2 >= y THEN y
    ELSE Newton(x, (y + Quot(x, y)) \div 2)

\* f64::sqrt (x >= 0)
FSqrt(x) == IF x = 0 THEN 0 ELSE Newton(x, RootGuess(x))

\* nalgebra::clamp
Clamp(x, lo, hi) == IF x < lo THEN lo ELSE IF x > hi THEN hi ELSE x

\* x^n by repeated squaring
RECURSIVE PowN(_, _)
PowN(x, n) ==
    IF n = 0 THEN Scale
    ELSE LET half == PowN(x, n \div 2)
             sq   == FMul(half, half)
         IN  IF n % 2 = 1 THEN FMul(sq, x) ELSE sq

\* f64::powf with a whole exponent, given in units
Powf(x, e) == PowN(x, e \div Scale)

(***************************************************************************)
(* nalgebra::Vector3<f64>                                                  *)
(***************************************************************************)
V3(x, y, z) == <<x, y, z>>

Zero3 == V3(0, 0, 0)

VAdd(a, b) == V3(a[1] + b[1], a[2] + b[2], a[3] + b[3])

VSub(a, b) == V3(a[1] - b[1], a[2] - b[2], a[3] - b[3])

VScale(a, k) == V3(FMul(a[1], k), FMul(a[2], k), FMul(a[3], k))

Dot(a, b) == FMul(a[1], b[1]) + FMul(a[2], b[2]) + FMul(a[3], b[3])

Norm(a) == FSqrt(Dot(a, a))

\* The f64 NaN, which only the normalization of a zero vector produces
NaN == -2000000001

\* Vector3::normalize: each component divided by the norm (0.0 / 0.0 is NaN)
DivideBy(a, len) ==
    IF len = 0 THEN V3(NaN, NaN, NaN)
    ELSE V3(FDiv(a[1], len), FDiv(a[2], len), FDiv(a[3], len))

Normalize(a) == DivideBy(a, Norm(a))

(***************************************************************************)
(* object.rs                                                               *)
(***************************************************************************)
\* Material as main.rs uses it: diffuse colour, albedo, specular exponent
Material(diffuse_color, albedo, specular_exponent) ==
    [diffuse_color |-> diffuse_color, albedo |-> albedo,
     specular_exponent |-> specular_exponent]

\* Material::default()
MaterialDefault == Material(Zero3, Zero3, 0)

Sphere(center, radius, material) ==
    [center |-> center, radius |-> radius, material |-> material]

Light(position, intensity) == [position |-> position, intensity |-> intensity]

\* The last lines of ray_intersect without the fallback to t1
SelectRoot_NoFallback(t0, t1) == IF t0 < 0 THEN <<FALSE, t0>> ELSE <<TRUE, t0>>

\* The last lines of ray_intersect returning the far root t1
SelectRoot_FarRoot(t0, t1) == IF t1 < 0 THEN <<FALSE, t1>> ELSE <<TRUE, t1>>

\* ray_intersect, lines 90-92: t0 if it is not negative, else t1 if that is
\* not negative, else no intersection
SelectRoot(t0, t1) ==
    IF t0 < 0
    THEN (IF t1 < 0 THEN <<FALSE, t1>> ELSE <<TRUE, t1>>)
    ELSE <<TRUE, t0>>

\* Sphere::ray_intersect: <<is_intersect, t0>>.  Each local operator takes
\* the values the lines before it have computed.
RayIntersect(sphere, ray_origin, dir, t0in) ==
    LET Roots(tca, thc) == SelectRoot(tca - thc, tca + thc)
        Chord(tca, d2, r2) ==
            IF d2 > r2 THEN <<FALSE, t0in>> ELSE Roots(tca, FSqrt(r2 - d2))
        Project(l, tca) ==
            Chord(tca, Dot(l, l) - FMul(tca, tca),
                  FMul(sphere.radius, sphere.radius))
        From(l) == Project(l, Dot(l, dir))
    IN  From(VSub(sphere.center, ray_origin))

(***************************************************************************)
(* main.rs: scene_intersect                                                *)
(***************************************************************************)
\* std::f64::MAX: above every distance of the model
F64Max == 2000000000

\* the cutoff 1000.0 of scene_intersect's return
WorldHorizon == 1000

\* A comparison that also replaces the minimum on a tie
Nearer_OrEqual(dist_i, spheres_dist) == dist_i <= spheres_dist

\* The strict comparison that replaces the running minimum
Nearer(dist_i, spheres_dist) == dist_i < spheres_dist

\* What scene_intersect keeps of the sphere it found nearest so far
Found(sphere, dist_i, point) ==
    [spheres_dist |-> dist_i,
     point        |-> point,
     n            |-> Normalize(VSub(point, sphere.center)),
     material     |-> sphere.material]

\* The body of the loop of scene_intersect: r is what ray_intersect returned
Visit(sphere, ray_origin, ray_direction, r, acc) ==
    IF r[1] /\ Nearer(r[2], acc.spheres_dist)
    THEN Found(sphere, r[2], VAdd(ray_origin, VScale(ray_direction, r[2])))
    ELSE acc

\* The loop of scene_intersect over scene[k..], from the running state acc
RECURSIVE SceneLoop(_, _, _, _, _)
SceneLoop(ray_origin, ray_direction, scene, k, acc) ==
    IF k > Len(scene) THEN acc
    ELSE SceneLoop(ray_origin, ray_direction, scene, k + 1,
                   Visit(scene[k], ray_origin, ray_direction,
                         RayIntersect(scene[k], ray_origin, ray_direction, 0), acc))

\* Whether the minimum distance counts as a hit
WithinHorizon(spheres_dist) == spheres_dist < U(WorldHorizon)

\* The defaults scene_intersect starts from
SceneDefaults ==
    [spheres_dist |-> F64Max, point |-> Zero3, n |-> Zero3,
     material |-> MaterialDefault]

\* The value scene_intersect returns: (is_intersect, point, n, material)
SceneResult(acc) ==
    [hit      |-> WithinHorizon(acc.spheres_dist),
     point    |-> acc.point,
     n        |-> acc.n,
     material |-> acc.material]

\* scene_intersect
SceneIntersect(ray_origin, ray_direction, scene) ==
    SceneResult(SceneLoop(ray_origin, ray_direction, scene, 1, SceneDefaults))

(***************************************************************************)
(* main.rs: cast_ray                                                       *)
(***************************************************************************)
BACKGROUND_COLOR == V3(700, 800, 1000)

MAX_RECURSION_DEPTH == 6

\* 1e-3, the offset of secondary ray origins along the normal
Bias == 1

\* reflect(i, n) = i - n * 2.0 * i.dot(n)
Reflect(i, n) == VSub(i, VScale(VScale(n, 2 * Scale), Dot(i, n)))

\* The origin of a secondary ray leaving point in direction dir
BiasedOrigin(point, n, dir) ==
    IF Dot(dir, n) < 0 THEN VSub(point, VScale(n, Bias))
    ELSE VAdd(point, VScale(n, Bias))

\* A recursive call that forgets to count the level
NextDepth_Same(depth) == depth

\* The depth of the recursive call
NextDepth(depth) == depth + 1

\* A base case that forgets the depth limit
IsBaseCase_NoDepthLimit(is_intersect, depth) == ~is_intersect

\* A base case whose depth limit is one too high
IsBaseCase_OffByOne(is_intersect, depth) ==
    ~is_intersect \/ depth > MAX_RECURSION_DEPTH + 1

\* The base case of cast_ray: no hit, or the depth limit is exceeded
IsBaseCase(is_intersect, depth) ==
    ~is_intersect \/ depth > MAX_RECURSION_DEPTH

\* A shadow test that ignores how far the light is
InShadow_AnyHit(shadow, shadow_origin, light_distance) == shadow.hit

\* A shadow test that never skips a light
InShadow_Never(shadow, shadow_origin, light_distance) == FALSE

\* The shadow test of the loop over lights
InShadow(shadow, shadow_origin, light_distance) ==
    shadow.hit /\ Norm(VSub(shadow.point, shadow_origin)) < light_distance

\* Lines 149-162: the shadow test and what the light adds
Shade(light, light_direction, light_distance, shadow_origin, n, material, direction, scene) ==
    IF InShadow(SceneIntersect(shadow_origin, light_direction, scene),
                shadow_origin, light_distance)
    THEN [skipped |-> TRUE, diffuse |-> 0, specular |-> 0,
          shadow_origin |-> shadow_origin, light_direction |-> light_direction,
          light_distance |-> light_distance]
    ELSE [skipped  |-> FALSE,
          diffuse  |-> FMul(light.intensity,
                            Clamp(Dot(light_direction, n), 0, Scale)),
          specular |-> FMul(Powf(Clamp(Dot(Reflect(light_direction, n), direction),
                                       0, Scale),
                                 material.specular_exponent),
                            light.intensity),
          shadow_origin |-> shadow_origin, light_direction |-> light_direction,
          light_distance |-> light_distance]

\* Lines 140-144: the origin of the shadow ray
Toward(light, light_direction, light_distance, point, n, material, direction, scene) ==
    Shade(light, light_direction, light_distance,
          BiasedOrigin(point, n, light_direction), n, material, direction, scene)

\* One iteration of the loop over lights at a hit (point, n, material) of a
\* ray of direction direction: what it adds to the two intensities
LightStep(light, point, n, material, direction, scene) ==
    Toward(light, Normalize(VSub(light.position, point)),
           Norm(VSub(light.position, point)), point, n, material, direction, scene)

\* The colour cast_ray returns at a hit
Combine(material, diffuse_light_intensity, specular_light_intensity, reflect_color) ==
    VAdd(VAdd(VScale(VScale(material.diffuse_color, diffuse_light_intensity),
                     material.albedo[1]),
              VScale(VScale(V3(Scale, Scale, Scale), specular_light_intensity),
                     material.albedo[2])),
         VScale(reflect_color, material.albedo[3]))

\* The intensities after one more light
Accumulate(acc, step) ==
    [diffuse  |-> acc.diffuse + step.diffuse,
     specular |-> acc.specular + step.specular]

\* The loop over lts[k..], as a function of the intensities so far
RECURSIVE LightLoop(_, _, _, _, _, _, _, _)
LightLoop(lts, k, point, n, material, direction, scene, acc) ==
    IF k > Len(lts) THEN acc
    ELSE LightLoop(lts, k + 1, point, n, material, direction, scene,
                   Accumulate(acc, LightStep(lts[k], point, n, material,
                                             direction, scene)))

\* cast_ray as a function: the colour, with the numbers of cast_ray and of
\* scene_intersect invocations it took
RECURSIVE CastRay(_, _, _, _, _)

\* Lines 164-167, given the reflected colour and the two intensities
Shaded(hit, reflected, lit, lts) ==
    [casts      |-> 1 + reflected.casts,
     intersects |-> 1 + reflected.intersects + Len(lts),
     color      |-> Combine(hit.material, lit.diffuse, lit.specular, reflected.color)]

\* Lines 116-163, given the reflection direction
Reflected(hit, direction, reflect_direction, scene, lts, depth) ==
    Shaded(hit,
           CastRay(BiasedOrigin(hit.point, hit.n, reflect_direction),
                   reflect_direction, scene, lts, NextDepth(depth)),
           LightLoop(lts, 1, hit.point, hit.n, hit.material, direction, scene,
                     [diffuse |-> 0, specular |-> 0]),
           lts)

\* Lines 108-167, given what scene_intersect returned
CastRayAt(hit, direction, scene, lts, depth) ==
    IF IsBaseCase(hit.hit, depth)
    THEN [color |-> BACKGROUND_COLOR, casts |-> 1, intersects |-> 1]
    ELSE Reflected(hit, direction, Reflect(direction, hit.n), scene, lts, depth)

CastRay(origin, direction, scene, lts, depth) ==
    CastRayAt(SceneIntersect(origin, direction, scene), direction, scene, lts, depth)

(***************************************************************************)
(* Inputs: materials, spheres and rays                                     *)
(***************************************************************************)
\* albedo (0.6, 0.3, 0.1), colour (0.4, 0.4, 0.3), exponent 50
Ivory == Material(V3(400, 400, 300), V3(600, 300, 100), U(50))

\* albedo (0.9, 0.1, 0.0): no reflection weight
RedRubber == Material(V3(300, 100, 100), V3(900, 100, 0), U(10))

\* albedo (0.0, 1.0, 0.8)
Mirror == Material(V3(1000, 1000, 1000), V3(0, 1000, 800), U(20))

\* The spheres the intersection queries are built from
SphereCatalog ==
    { Sphere(V3(0, 0, U(-5)), U(1), Ivory),
      Sphere(V3(0, 0, U(-5)), U(1), RedRubber),
      Sphere(V3(0, 0, U(-6)), U(2), Mirror),
      Sphere(V3(0, 0, U(5)), U(1), Mirror),
      Sphere(V3(0, U(2), U(-5)), U(2), Ivory),
      Sphere(V3(0, U(3), U(-5)), U(1), RedRubber),
      Sphere(V3(0, 0, U(-1100)), U(10), Ivory),
      Sphere(V3(0, 0, U(-5)), 0, Ivory),
      Sphere(V3(0, 0, U(-5)), U(-1), RedRubber) }

\* The longest sphere list of a query
MaxSpheres == 2

SphereLists == UNION { [1..n -> SphereCatalog] : n \in 1..MaxSpheres }

RayOrigins ==
    { Zero3, V3(0, 0, U(-5)), V3(0, 0, -5500), V3(U(-3), U(-4), U(-5)),
      V3(0, 0, U(-20)) }

\* Unit vectors that are exact in fixed point
RayDirections ==
    { V3(0, 0, -Scale), V3(0, 0, Scale), V3(0, Scale, 0), V3(600, 800, 0) }

(***************************************************************************)
(* SpecIntersect: one call of Sphere::ray_intersect or of scene_intersect  *)
(* on arguments drawn from the sets above                                  *)
(***************************************************************************)
\* The variables of render, at rest
RenderIdle ==
    /\ config = [kind |-> "none"]
    /\ rpc = "idle"
    /\ buffer = <<>>
    /\ bufLen = 0
    /\ pj = 0
    /\ pi = 0
    /\ tasks = <<>>
    /\ outputs = <<>>
    /\ di = 0
    /\ writes = <<>>
    /\ nTests = 0
    /\ firstPolled = 0

\* The variables of the cast_ray machine, at rest
CastIdle ==
    /\ call = [kind |-> "none"]
    /\ stack = <<>>
    /\ result = [kind |-> "none"]
    /\ nCasts = 0
    /\ nIntersect = 0
    /\ ret = [kind |-> "none"]
    /\ lastLight = [kind |-> "none"]

InitIntersect ==
    /\ q \in [origin : RayOrigins, dir : RayDirections, spheres : SphereLists]
    /\ ans = [kind |-> "none"]
    /\ spheres = <<>>
    /\ lights = <<>>
    /\ CastIdle
    /\ RenderIdle

\* sphere.ray_intersect(origin, dir, 0.0) on the first sphere of the list
CallRayIntersect ==
    /\ ans.kind = "none"
    /\ ans' = [kind |-> "ray",
               r    |-> RayIntersect(q.spheres[1], q.origin, q.dir, 0)]
    /\ UNCHANGED <<q, svars, cvars, rvars>>

\* scene_intersect(origin, dir, &spheres).unwrap()
CallSceneIntersect ==
    /\ ans.kind = "none"
    /\ ans' = [kind |-> "scene",
               r    |-> SceneIntersect(q.origin, q.dir, q.spheres)]
    /\ UNCHANGED <<q, svars, cvars, rvars>>

NextIntersect == CallRayIntersect \/ CallSceneIntersect

SpecIntersect == InitIntersect /\ [][NextIntersect]_vars

(***************************************************************************)
(* Spec: one outermost call of cast_ray, run step by step.  Each           *)
(* activation record of the recursion is a frame of the stack.             *)
(***************************************************************************)
CastSpheres ==
    { Sphere(V3(0, 0, U(-5)), U(1), Ivory),
      Sphere(V3(0, 0, U(-5)), U(1), RedRubber),
      Sphere(V3(0, 0, U(5)), U(1), Mirror),
      Sphere(V3(0, 0, U(1100)), U(10), Ivory) }

CastLights ==
    { Light(V3(0, 0, U(10)), 1500),
      Light(V3(0, 0, U(1200)), 1000),
      Light(V3(0, U(10), 0), 1800) }

\* The longest sphere list and light list of a scene
MaxSceneSpheres == 2

MaxSceneLights == 2

SceneSpheres == UNION { [1..n -> CastSpheres] : n \in 1..MaxSceneSpheres }

SceneLights == UNION { [1..n -> CastLights] : n \in 0..MaxSceneLights }

\* The greatest depth an outermost call is started with
MaxStartDepth == 8

StartDepths == {0} \cup (MAX_RECURSION_DEPTH..MaxStartDepth)

Frame(origin, direction, depth) ==
    [origin |-> origin, direction |-> direction, depth |-> depth, pc |-> "enter",
     point |-> Zero3, n |-> Zero3, material |-> MaterialDefault,
     reflect_color |-> Zero3, li |-> 1, diffuse |-> 0, specular |-> 0]

Init ==
    /\ q = [kind |-> "none"]
    /\ ans = [kind |-> "none"]
    /\ spheres \in SceneSpheres
    /\ lights \in SceneLights
    /\ call \in [origin : {Zero3}, direction : {V3(0, 0, -Scale), V3(0, 0, Scale)},
                  depth : StartDepths]
    /\ stack = <<Frame(call.origin, call.direction, call.depth)>>
    /\ result = [kind |-> "none"]
    /\ nCasts = 1
    /\ nIntersect = 0
    /\ ret = [kind |-> "none"]
    /\ lastLight = [kind |-> "none"]
    /\ RenderIdle

Top == stack[Len(stack)]

\* The innermost invocation returns color: to its caller, which goes on to
\* the loop over lights, or as the result of the outermost call
Return(color, is_intersect) ==
    /\ ret' = [kind |-> "return", depth |-> Top.depth, color |-> color,
               hit |-> is_intersect, height |-> Len(stack)]
    /\ IF Len(stack) = 1
       THEN /\ stack' = <<>>
            /\ result' = [kind |-> "color", color |-> color]
       ELSE /\ stack' = [SubSeq(stack, 1, Len(stack) - 1) EXCEPT
                            ![Len(stack) - 1].reflect_color = color,
                            ![Len(stack) - 1].pc = "lights"]
            /\ UNCHANGED result

\* cast_ray, lines 107-110: the ray hits nothing or is too deep
CastRayBackground ==
    /\ stack # <<>>
    /\ Top.pc = "enter"
    /\ \E hit \in {SceneIntersect(Top.origin, Top.direction, spheres)} :
           /\ IsBaseCase(hit.hit, Top.depth)
           /\ Return(BACKGROUND_COLOR, hit.hit)
    /\ nIntersect' = nIntersect + 1
    /\ UNCHANGED <<ivars, svars, rvars, call, nCasts, lastLight>>

\* cast_ray, lines 107-127: a hit; the reflected ray is cast one level deeper
CastRayRecurse ==
    /\ stack # <<>>
    /\ Top.pc = "enter"
    /\ \E hit \in {SceneIntersect(Top.origin, Top.direction, spheres)} :
           /\ ~IsBaseCase(hit.hit, Top.depth)
           /\ \E reflect_direction \in {Reflect(Top.direction, hit.n)} :
                  stack' = Append([stack EXCEPT ![Len(stack)].pc = "reflect",
                                               ![Len(stack)].point = hit.point,
                                               ![Len(stack)].n = hit.n,
                                               ![Len(stack)].material = hit.material],
                                  Frame(BiasedOrigin(hit.point, hit.n, reflect_direction),
                                        reflect_direction, NextDepth(Top.depth)))
    /\ nIntersect' = nIntersect + 1
    /\ nCasts' = nCasts + 1
    /\ UNCHANGED <<ivars, svars, rvars, call, result, ret, lastLight>>

\* cast_ray, lines 135-163: one iteration of the loop over lights
CastRayLight ==
    /\ stack # <<>>
    /\ Top.pc = "lights"
    /\ Top.li <= Len(lights)
    /\ \E step \in {LightStep(lights[Top.li], Top.point, Top.n, Top.material,
                              Top.direction, spheres)} :
           /\ stack' = [stack EXCEPT ![Len(stack)].li = Top.li + 1,
                                     ![Len(stack)].diffuse = Top.diffuse + step.diffuse,
                                     ![Len(stack)].specular = Top.specular + step.specular]
           /\ lastLight' = [kind |-> "light", light |-> lights[Top.li],
                            step |-> step,
                            diffuse_before |-> Top.diffuse,
                            specular_before |-> Top.specular,
                            diffuse_after |-> Top.diffuse + step.diffuse,
                            specular_after |-> Top.specular + step.specular]
    /\ nIntersect' = nIntersect + 1
    /\ UNCHANGED <<ivars, svars, rvars, call, result, nCasts, ret>>

\* cast_ray, lines 164-167: the three contributions are combined and returned
CastRayReturn ==
    /\ stack # <<>>
    /\ Top.pc = "lights"
    /\ Top.li > Len(lights)
    /\ Return(Combine(Top.material, Top.diffuse, Top.specular, Top.reflect_color),
              TRUE)
    /\ UNCHANGED <<ivars, svars, rvars, call, nCasts, nIntersect, lastLight>>

Next == CastRayBackground \/ CastRayRecurse \/ CastRayLight \/ CastRayReturn

Spec == Init /\ [][Next]_vars

(***************************************************************************)
(* main.rs: render.  u32 values that may exceed 2^31 are kept as two       *)
(* 16-bit halves [hi, lo]; hi is left unreduced where the exact value is   *)
(* meant.                                                                  *)
(***************************************************************************)
Half == 65536

Carry(hi, lo) == [hi |-> hi + lo \div Half, lo |-> lo % Half]

WideOf(n) == Carry(0, n)

WideAdd(a, b) == Carry(a.hi + b.hi, a.lo + b.lo)

\* a * k for k <= 256
WideTimes(a, k) == Carry(a.hi * k, a.lo * k)

\* a * k for k <= 65536, exactly
WideMul(a, k) ==
    WideAdd(WideTimes(WideTimes(a, k \div 256), 256), WideTimes(a, k % 256))

\* Whether a fits in 32 bits, and what a u32 keeps of it
FitsU32(a) == a.hi < Half

WrapU32(a) == [hi |-> a.hi % Half, lo |-> a.lo]

\* A wide value below 2^31 as an integer
ToInt(a) == a.hi * Half + a.lo

\* The u32 product width * height * 3 of line 194, left to right: what a
\* build that wraps computes, and whether a build that checks panics
BufferLength(width, height) ==
    WrapU32(WideMul(WrapU32(WideMul(WideOf(width), height)), 3))

BufferLengthOverflows(width, height) ==
    \/ ~FitsU32(WideMul(WideOf(width), height))
    \/ ~FitsU32(WideMul(WrapU32(WideMul(WideOf(width), height)), 3))

\* (fov / 2.0).tan(), for the angles of the model: 60, 90 and 120 degrees
TanHalf(fov) ==
    CASE fov = 1047 -> 577
      [] fov = 1571 -> 1000
      [] fov = 2094 -> 1732

\* Lines 203-209: the direction of the primary ray of pixel (i, j)
PixelDirection(i, j, width, height, fov) ==
    Normalize(V3(
        FDiv(FMul(FMul(FDiv(FMul(2 * Scale, U(i) + 500), U(width)) - Scale,
                       TanHalf(fov)),
                  U(width)),
             U(height)),
        -FMul(FDiv(FMul(2 * Scale, U(j) + 500), U(height)) - Scale, TanHalf(fov)),
        -Scale))

\* (c * 255.0) as u8: the cast truncates and saturates
Quantize(c) == Clamp(FMul(c, U(255)) \div Scale, 0, 255)

\* A pixel position computed with the axes swapped
PixelIndex_Transposed(i, j, width) == j + i * width

\* Line 216: the position of pixel (i, j) in row-major order
PixelIndex(i, j, width) == i + j * width

\* cast_ray_async: the future of pixel (i, j), once polled
CastRayAsync(origin, direction, scene, lts, depth, i, j) ==
    [i |-> i, j |-> j, cast |-> CastRay(origin, direction, scene, lts, depth)]

(***************************************************************************)
(* SpecRender: one call of render                                          *)
(***************************************************************************)
\* The largest image whose pixels the model walks through
MaxWidth == 2

MaxHeight == 2

\* One image too large for a u32 byte count
HugeSide == 65536

RenderSizes ==
    ((1..MaxWidth) \X (1..MaxHeight)) \cup {<<HugeSide, HugeSide>>}

RenderScenes ==
    { [spheres |-> <<Sphere(V3(0, 0, U(-5)), U(1), Ivory),
                     Sphere(V3(0, 0, U(5)), U(1), Mirror)>>,
       lights  |-> <<Light(V3(0, 0, U(10)), 1500)>>],
      [spheres |-> <<Sphere(V3(0, 0, U(-5)), U(3), Mirror),
                     Sphere(V3(0, U(4), U(-2)), U(1), RedRubber)>>,
       lights  |-> <<Light(V3(0, U(10), 0), 1800), Light(V3(0, 0, U(10)), 1500)>>],
      [spheres |-> <<Sphere(V3(U(3), U(3), U(-4)), U(3), Ivory),
                     Sphere(V3(U(-3), U(2), U(-4)), U(2), RedRubber)>>,
       lights  |-> <<Light(V3(0, U(10), U(5)), 1500)>>],
      [spheres |-> <<Sphere(V3(0, 0, U(-5)), U(1), RedRubber)>>,
       lights  |-> <<>>] }

InitRender ==
    /\ q = [kind |-> "none"]
    /\ ans = [kind |-> "none"]
    /\ \E scene \in RenderScenes : spheres = scene.spheres /\ lights = scene.lights
    /\ CastIdle
    /\ \E size \in RenderSizes :
           config = [width |-> size[1], height |-> size[2], fov |-> 1571]
    /\ rpc = "start"
    /\ buffer = <<>>
    /\ bufLen = WideOf(0)
    /\ pj = 0
    /\ pi = 0
    /\ tasks = <<>>
    /\ outputs = <<>>
    /\ di = 0
    /\ writes = <<>>
    /\ nTests = 0
    /\ firstPolled = 0

\* Lines 194-195: the buffer is allocated.  A product that overflows u32
\* panics in a build with overflow checks and wraps in one without.
RenderAlloc ==
    /\ rpc = "start"
    /\ \E build \in {"checked", "wrapping"} :
           IF build = "checked" /\ BufferLengthOverflows(config.width, config.height)
           THEN /\ rpc' = "panic"
                /\ UNCHANGED <<buffer, bufLen, writes>>
           ELSE /\ rpc' = "push"
                /\ bufLen' = BufferLength(config.width, config.height)
                /\ buffer' = [p \in 0..(ToInt(bufLen') - 1) |-> 0]
                /\ writes' = [p \in 0..(ToInt(bufLen') - 1) |-> 0]
    /\ UNCHANGED <<ivars, svars, cvars, config, pj, pi, tasks, outputs, di, nTests,
                   firstPolled>>

\* Lines 197-213: one iteration of the loops over j and i pushes a future
RenderPush ==
    /\ rpc = "push"
    /\ config.width <= MaxWidth /\ config.height <= MaxHeight
    /\ tasks' = Append(tasks,
                       [origin    |-> Zero3,
                        direction |-> PixelDirection(pi, pj, config.width,
                                                     config.height, config.fov),
                        depth |-> 0, i |-> pi, j |-> pj])
    /\ outputs' = Append(outputs, [kind |-> "pending"])
    /\ IF pi + 1 < config.width
       THEN pi' = pi + 1 /\ pj' = pj /\ rpc' = "push"
       ELSE /\ pi' = 0
            /\ pj' = pj + 1
            /\ rpc' = IF pj + 1 < config.height THEN "push" ELSE "join"
    /\ UNCHANGED <<ivars, svars, cvars, config, buffer, bufLen, di, writes, nTests,
                   firstPolled>>

\* Line 214, join_all: a future that is not ready is polled, in any order; it
\* has no await inside, so the poll runs cast_ray to its end
RenderPoll ==
    /\ rpc = "join"
    /\ \E k \in 1..Len(tasks) :
           /\ outputs[k].kind = "pending"
           /\ \E out \in {CastRayAsync(tasks[k].origin, tasks[k].direction, spheres,
                                        lights, tasks[k].depth, tasks[k].i,
                                        tasks[k].j)} :
                  /\ outputs' = [outputs EXCEPT ![k] =
                                     [kind |-> "ready", i |-> out.i, j |-> out.j,
                                      color |-> out.cast.color]]
                  /\ nTests' = nTests + out.cast.intersects
           /\ firstPolled' = IF firstPolled = 0 THEN k ELSE firstPolled
    /\ UNCHANGED <<ivars, svars, cvars, config, rpc, buffer, bufLen, pj, pi, tasks,
                   di, writes>>

\* Line 214: every future is ready; the results are in the order of the tasks
RenderJoined ==
    /\ rpc = "join"
    /\ \A k \in 1..Len(tasks) : outputs[k].kind = "ready"
    /\ rpc' = "deposit"
    /\ di' = 1
    /\ UNCHANGED <<ivars, svars, cvars, config, buffer, bufLen, pj, pi, tasks,
                   outputs, writes, nTests, firstPolled>>

\* Lines 215-220: one result is written to the buffer
RenderDeposit ==
    /\ rpc = "deposit"
    /\ di <= Len(outputs)
    /\ \E index \in {PixelIndex(outputs[di].i, outputs[di].j, config.width)} :
           IF index * 3 + 2 \in DOMAIN buffer
           THEN /\ buffer' = [buffer EXCEPT
                                 ![index * 3]     = Quantize(outputs[di].color[1]),
                                 ![index * 3 + 1] = Quantize(outputs[di].color[2]),
                                 ![index * 3 + 2] = Quantize(outputs[di].color[3])]
                /\ writes' = [writes EXCEPT ![index * 3]     = @ + 1,
                                            ![index * 3 + 1] = @ + 1,
                                            ![index * 3 + 2] = @ + 1]
                /\ di' = di + 1
                /\ UNCHANGED rpc
           ELSE /\ rpc' = "panic"
                /\ UNCHANGED <<buffer, writes, di>>
    /\ UNCHANGED <<ivars, svars, cvars, config, bufLen, pj, pi, tasks, outputs,
                   nTests, firstPolled>>

\* Line 221: the buffer is returned
RenderReturn ==
    /\ rpc = "deposit"
    /\ di > Len(outputs)
    /\ rpc' = "done"
    /\ UNCHANGED <<ivars, svars, cvars, config, buffer, bufLen, pj, pi, tasks,
                   outputs, di, writes, nTests, firstPolled>>

NextRender ==
    \/ RenderAlloc
    \/ RenderPush
    \/ RenderPoll
    \/ RenderJoined
    \/ RenderDeposit
    \/ RenderReturn

SpecRender == InitRender /\ [][NextRender]_vars

(***************************************************************************)
(* Claims about render (under SpecRender)                                  *)
(***************************************************************************)
\* width * height * 3, exactly
ExactLength == WideMul(WideMul(WideOf(config.width), config.height), 3)

\* The image is one whose pixels the model walks through
Walked == config.width <= MaxWidth /\ config.height <= MaxHeight

\* The pixel whose channel is stored at buffer position p
PixelOf(p) == [i |-> (p \div 3) % config.width, j |-> (p \div 3) \div config.width]

\* The output of the task of pixel (i, j)
OutputOf(i, j) == outputs[CHOOSE k \in 1..Len(tasks) : tasks[k].i = i /\ tasks[k].j = j]

\* C6: for every width > 0 and height > 0 that fit a u32, render returns a
\* buffer of exactly width*height*3 bytes (it does not panic and the length
\* is the exact product), the channels of pixel (i, j) are at positions
\* 3*(j*width+i), +1 and +2, and every position is written exactly once.
C6_BufferLengthAndLayout ==
    /\ rpc # "panic"
    /\ rpc # "start" => bufLen = ExactLength
    /\ rpc = "done" =>
           \A p \in DOMAIN buffer :
               /\ writes[p] = 1
               /\ buffer[p] =
                      Quantize(OutputOf(PixelOf(p).i, PixelOf(p).j).color[(p % 3) + 1])

\* The buffer of a sequential evaluation in row-major order
RowMajorBuffer ==
    [p \in 0..(config.width * config.height * 3 - 1) |->
        Quantize(CastRay(Zero3,
                         PixelDirection(PixelOf(p).i, PixelOf(p).j, config.width,
                                        config.height, config.fov),
                         spheres, lights, 0).color[(p % 3) + 1])]

\* C7: whatever the order in which the pixel futures were polled, the buffer
\* render returns is the one of a sequential row-major evaluation of the
\* same scene and configuration (so two renders give identical buffers).
C7_ScheduleIndependent ==
    rpc = "done" => buffer = RowMajorBuffer

\* A render of several pixels of different colours has returned, and the
\* future polled first was the last one pushed
C7_Witness ==
    /\ rpc = "done"
    /\ Len(tasks) >= 2
    /\ firstPolled = Len(tasks)
    /\ \E p, r \in DOMAIN buffer : p % 3 = r % 3 /\ buffer[p] # buffer[r]

\* C8 as stated: one render makes at most width*height*lights*
\* MAX_RECURSION_DEPTH scene_intersect invocations.
C8_Original ==
    Walked =>
        nTests <= config.width * config.height * Len(lights) * MAX_RECURSION_DEPTH

\* The scene_intersect invocations one primary ray can cause: one call of
\* cast_ray at each depth 0..MAX_RECURSION_DEPTH with its shadow rays, and
\* the call at depth MAX_RECURSION_DEPTH + 1
TestsPerPixel == (MAX_RECURSION_DEPTH + 1) * (Len(lights) + 1) + 1

\* C8: one render makes at most width*height*((MAX_RECURSION_DEPTH + 1) *
\* (lights + 1) + 1) scene_intersect invocations.
C8_BoundedTests ==
    Walked => nTests <= config.width * config.height * TestsPerPixel

\* A render with a light has returned and made exactly that many tests
C8_Witness ==
    /\ rpc = "done"
    /\ Len(lights) >= 1
    /\ nTests = config.width * config.height * TestsPerPixel

(***************************************************************************)
(* Claims about cast_ray (under Spec)                                      *)
(***************************************************************************)
\* C1: an invocation of cast_ray whose depth exceeds MAX_RECURSION_DEPTH
\* returns exactly BACKGROUND_COLOR, hit or no hit, and calls cast_ray no
\* further: it is never below another frame and never reaches the lights.
C1_TooDeepReturnsBackground ==
    /\ ret.kind = "return" /\ ret.depth > MAX_RECURSION_DEPTH
           => ret.color = BACKGROUND_COLOR
    /\ \A k \in 1..Len(stack) :
           stack[k].depth > MAX_RECURSION_DEPTH
               => k = Len(stack) /\ stack[k].pc = "enter"
    /\ call.depth > MAX_RECURSION_DEPTH => nCasts = 1 /\ nIntersect <= 1

\* An outermost call deeper than the limit, whose ray hits a sphere, returned
C1_Witness ==
    /\ call.depth > MAX_RECURSION_DEPTH
    /\ result.kind = "color"
    /\ ret.kind = "return"
    /\ ret.hit
    /\ SceneIntersect(call.origin, call.direction, spheres).hit
    /\ result.color = BACKGROUND_COLOR

\* The shadow ray of the last light hits sphere k nearer than the light
OccludedBy(k) ==
    /\ RayIntersect(spheres[k], lastLight.step.shadow_origin,
                    lastLight.step.light_direction, 0)[1]
    /\ RayIntersect(spheres[k], lastLight.step.shadow_origin,
                    lastLight.step.light_direction, 0)[2]
           < lastLight.step.light_distance

\* The same, the hit being nearer than the cutoff 1000.0 of scene_intersect
OccludedNearBy(k) ==
    /\ OccludedBy(k)
    /\ RayIntersect(spheres[k], lastLight.step.shadow_origin,
                    lastLight.step.light_direction, 0)[2] < U(WorldHorizon)

LastLightAddedNothing ==
    /\ lastLight.diffuse_after = lastLight.diffuse_before
    /\ lastLight.specular_after = lastLight.specular_before

\* C3 as stated: a light whose shadow ray hits any sphere nearer than the
\* light adds nothing to the two intensities, however far the occluder is.
C3_Original ==
    lastLight.kind = "light" /\ (\E k \in 1..Len(spheres) : OccludedBy(k))
        => LastLightAddedNothing

\* C3 amended: a light whose shadow ray hits a sphere nearer than the light
\* and nearer than the cutoff 1000.0 of scene_intersect adds nothing to the
\* two intensities.
C3_OccludedWithinHorizon ==
    lastLight.kind = "light" /\ (\E k \in 1..Len(spheres) : OccludedNearBy(k))
        => LastLightAddedNothing /\ lastLight.step.skipped

\* A light that faces the surface and would add to it is skipped
C3_Witness ==
    /\ lastLight.kind = "light"
    /\ \E k \in 1..Len(spheres) : OccludedNearBy(k)
    /\ lastLight.step.skipped
    /\ stack # <<>>
    /\ Dot(lastLight.step.light_direction, Top.n) > 0
    /\ lastLight.light.intensity > 0

\* The shape of the recursion of a call started with depth 0
RecursionShape ==
    /\ Len(stack) <= MAX_RECURSION_DEPTH + 2
    /\ nCasts <= MAX_RECURSION_DEPTH + 2
    /\ \A k \in 1..Len(stack) :
           /\ stack[k].depth = k - 1
           /\ stack[k].depth <= MAX_RECURSION_DEPTH + 1
           /\ stack[k].pc = "reflect" <=> k < Len(stack)
           /\ stack[k].pc # "enter" => stack[k].depth <= MAX_RECURSION_DEPTH
    /\ stack # <<>> /\ Top.pc = "enter" => ret.kind = "none" /\ nCasts = Len(stack)
    /\ stack # <<>> /\ Top.pc = "lights"
           => /\ ret.kind = "return"
              /\ ret.height = Len(stack) + 1
              /\ ret.depth = Top.depth + 1
              /\ Top.reflect_color = ret.color

\* The steps a fresh invocation at depth d takes at most, itself and the
\* invocations below it
StepsFrom(d) ==
    IF d > MAX_RECURSION_DEPTH THEN 1
    ELSE (MAX_RECURSION_DEPTH + 1 - d) * (Len(lights) + 2) + 1

\* The steps a frame has left at most
FrameRank(f) ==
    CASE f.pc = "enter"   -> StepsFrom(f.depth)
      [] f.pc = "reflect" -> Len(lights) + 1
      [] f.pc = "lights"  -> Len(lights) - f.li + 2

RECURSIVE RankUpTo(_)
RankUpTo(k) == IF k = 0 THEN 0 ELSE FrameRank(stack[k]) + RankUpTo(k - 1)

\* A bound on the steps the call has left: every step lowers it
Rank == RankUpTo(Len(stack))

\* The call has returned, or its innermost invocation can take a step
DoneOrCanStep ==
    IF stack = <<>> THEN result.kind = "color"
    ELSE Top.pc \in {"enter", "lights"} /\ Top.li >= 1

\* C10: a call of cast_ray started with depth 0 terminates (it is never
\* stuck before it returns, and every step lowers a bound that is never
\* negative); each invocation makes at most one recursive call, one level
\* deeper, only after a hit at a depth of at most MAX_RECURSION_DEPTH, so that
\* no depth exceeds 7 and there are at most 8 invocations; every hit at such
\* a depth makes the call, whatever the reflection weight of the material.
C10_BoundedRecursionTerminates ==
    /\ [](call.depth = 0 => RecursionShape /\ DoneOrCanStep /\ Rank >= 0)
    /\ [][call.depth = 0 => Rank' < Rank]_vars

\* Depth 7 is reached, and a material without reflection weight has got the
\* colour of its reflected ray
C10_Witness ==
    /\ call.depth = 0
    /\ nCasts = MAX_RECURSION_DEPTH + 2
    /\ stack # <<>>
    /\ Top.pc = "lights"
    /\ Top.material.albedo[3] = 0
    /\ Top.depth = 0

(***************************************************************************)
(* Claims about the intersection functions (under SpecIntersect)           *)
(***************************************************************************)
NSpheres == Len(q.spheres)

\* What ray_intersect says of sphere k of the query
HitOf(k) == RayIntersect(q.spheres[k], q.origin, q.dir, 0)[1]

DistOf(k) == RayIntersect(q.spheres[k], q.origin, q.dir, 0)[2]

HitSet == { k \in 1..NSpheres : HitOf(k) }

MinDist == CHOOSE d \in { DistOf(k) : k \in HitSet } :
               \A k \in HitSet : d <= DistOf(k)

FirstAtMin == CHOOSE k \in HitSet :
                  /\ DistOf(k) = MinDist
                  /\ \A j \in HitSet : DistOf(j) = MinDist => k <= j

Neg3(a) == V3(-a[1], -a[2], -a[3])

CenterDistance(t) == Norm(VSub(q.spheres[t].center, q.origin))

\* The ray of the query starts outside sphere t and points at its centre
AimedAtCenter(t) ==
    LET s   == q.spheres[t]
        toC == VSub(s.center, q.origin)
    IN  /\ s.radius > 0
        /\ CenterDistance(t) > s.radius
        /\ FMul(CenterDistance(t), CenterDistance(t)) = Dot(toC, toC)
        /\ q.dir = Normalize(toC)

\* No other sphere is hit nearer than sphere t (nor as near, earlier in the list)
NoOtherNearer(t) ==
    \A k \in HitSet \ {t} :
        \/ DistOf(k) > CenterDistance(t) - q.spheres[t].radius
        \/ DistOf(k) = CenterDistance(t) - q.spheres[t].radius /\ k > t

\* The answer of scene_intersect is the near surface point of sphere t
HitsFrontOf(t) ==
    /\ ans.r.hit
    /\ ans.r.point = VAdd(q.origin, VScale(q.dir, CenterDistance(t) - q.spheres[t].radius))
    /\ ans.r.n = Neg3(q.dir)

C4_FirstAtMinimumWins ==
    ans.kind = "scene" /\ HitSet # {} =>
        LET nearest == VAdd(q.origin, VScale(q.dir, MinDist))
        IN  /\ ans.r.point = nearest
            /\ ans.r.n = Normalize(VSub(nearest, q.spheres[FirstAtMin].center))
            /\ ans.r.material = q.spheres[FirstAtMin].material

\* Two different spheres are hit at the same distance and the first is reported
C4_Witness ==
    /\ ans.kind = "scene"
    /\ NSpheres = 2
    /\ q.spheres[1].radius > 0
    /\ q.spheres[2].radius > 0
    /\ HitSet = {1, 2}
    /\ DistOf(1) = DistOf(2)
    /\ q.spheres[1].center # q.spheres[2].center
    /\ q.spheres[1].material # q.spheres[2].material
    /\ ans.r.material = q.spheres[1].material

\* C5 as stated: a sphere whose radius is zero or negative is never
\* intersected by ray_intersect, and a list of such spheres never yields a hit.
C5_DegenerateNeverIntersects ==
    /\ ans.kind = "ray" /\ q.spheres[1].radius <= 0 => ~ans.r[1]
    /\ ans.kind = "scene" /\ (\A k \in 1..NSpheres : q.spheres[k].radius <= 0)
           => ~ans.r.hit

\* C9: with t0 = tca - thc and t1 = tca + thc, ray_intersect returns
\* (true, t0) when t0 >= 0, else (true, t1) when t1 >= 0, else false; it
\* returns false when d2 > radius^2; a distance returned with true is never
\* negative.
C9_CandidatePolicy ==
    ans.kind = "ray" =>
        LET s   == q.spheres[1]
            l   == VSub(s.center, q.origin)
            tca == Dot(l, q.dir)
            d2  == Dot(l, l) - FMul(tca, tca)
            r2  == FMul(s.radius, s.radius)
            thc == FSqrt(r2 - d2)
        IN  /\ d2 > r2 => ~ans.r[1]
            /\ d2 <= r2 /\ tca - thc >= 0 => ans.r = <<TRUE, tca - thc>>
            /\ d2 <= r2 /\ tca - thc < 0 /\ tca + thc >= 0 => ans.r = <<TRUE, tca + thc>>
            /\ d2 <= r2 /\ tca + thc < 0 => ~ans.r[1]
            /\ ans.r[1] => ans.r[2] >= 0

\* The origin is inside the sphere: the far root is returned
C9_Witness ==
    /\ ans.kind = "ray"
    /\ q.spheres[1].radius > 0
    /\ Norm(VSub(q.spheres[1].center, q.origin)) < q.spheres[1].radius
    /\ ans.r[1]
    /\ ans.r[2] > 0

====
